---- MODULE Spec2Model ----
(***************************************************************************)
(* Model of ozonenv/core/db/BsonTypes.py: the BSON field validators, the   *)
(* Decimal128 codec, the JSON fallback encoder and the module-level        *)
(* tables.  A state is the module's globals plus the last call made on the *)
(* module (operation, argument, outcome) and the number of calls so far.   *)
(*                                                                         *)
(* A Python value is a record [type |-> runtime class, val |-> payload].   *)
(* Text is a sequence of one-character strings, bytes a sequence of        *)
(* 0..255, a Python int a sign and a sequence of decimal digits (Python    *)
(* ints are unbounded).                                                    *)
(***************************************************************************)
EXTENDS Integers, Sequences, FiniteSets, TLC

VARIABLES BSON_SUBSTITUTED_FIELDS, BSON_TYPES_ENCODERS, decimal_codec,
          type_registry, codec_options, op, arg, outcome, calls

tables == <<BSON_SUBSTITUTED_FIELDS, BSON_TYPES_ENCODERS, decimal_codec,
            type_registry, codec_options>>
vars == <<BSON_SUBSTITUTED_FIELDS, BSON_TYPES_ENCODERS, decimal_codec,
          type_registry, codec_options, op, arg, outcome, calls>>

(***************************************************************************)
(* Bounds of the explored inputs.                                          *)
(***************************************************************************)
\* leading characters of an identifier string that range over IdAlphabet
MaxVar == 2
\* durations and dates range over 0..MaxDays whole days (plus the edges)
MaxDays == 2
\* calls made on the module in one run
MaxCalls == 3

(***************************************************************************)
(* Values and outcomes.                                                    *)
(***************************************************************************)
Val(t, v) == [type |-> t, val |-> v]
None == Val("NoneType", <<>>)
Str(chars) == Val("str", chars)

Ok(v) == [raised |-> "none", msg |-> "", value |-> v]
Raise(exc, m) == [raised |-> exc, msg |-> m, value |-> None]

\* class hierarchy: the wrappers of this module subclass the bson / stdlib
\* classes; the pydantic errors subclass TypeError or ValueError
Bases(t) ==
    CASE t = "PyObjectId" -> {"bson.ObjectId"}
      [] t = "Int64" -> {"bson.int64.Int64", "int"}
      [] t = "bson.int64.Int64" -> {"int"}
      [] t = "bool" -> {"int"}
      [] t = "Decimal128" -> {"bson.decimal128.Decimal128"}
      [] t = "Binary" -> {"bson.binary.Binary", "bytes"}
      [] t = "bson.binary.Binary" -> {"bytes"}
      [] t = "Regex" -> {"bson.regex.Regex"}
      [] t = "DateTime" -> {"datetime.datetime", "datetime.date"}
      [] t = "datetime.datetime" -> {"datetime.date"}
      [] t = "_decimalDecimal" -> {"decimal.Decimal"}
      [] t = "IntegerError" -> {"TypeError"}
      [] t = "DecimalError" -> {"TypeError"}
      [] t = "BytesError" -> {"TypeError"}
      [] t = "StrError" -> {"TypeError"}
      [] t = "DecimalIsNotFiniteError" -> {"ValueError"}
      [] t = "PatternError" -> {"ValueError"}
      [] t = "OverflowError" -> {"ArithmeticError"}
      [] OTHER -> {}

issubclass(t, c) == t = c \/ c \in Bases(t)

(***************************************************************************)
(* Text helpers.                                                           *)
(***************************************************************************)
Digits == <<"0", "1", "2", "3", "4", "5", "6", "7", "8", "9">>
HexLower == Digits \o <<"a", "b", "c", "d", "e", "f">>
HexUpper == Digits \o <<"A", "B", "C", "D", "E", "F">>

IsSpace(c) == c \in {" ", "\t", "\n", "\r"}
IsDigit(c) == \E i \in 1..10 : Digits[i] = c
DigitVal(c) == (CHOOSE i \in 1..10 : Digits[i] = c) - 1
IsHexChar(c) == \E i \in 1..16 : HexLower[i] = c \/ HexUpper[i] = c
HexVal(c) == (CHOOSE i \in 1..16 : HexLower[i] = c \/ HexUpper[i] = c) - 1

RECURSIVE Fill(_, _)
Fill(c, n) == IF n <= 0 THEN <<>> ELSE <<c>> \o Fill(c, n - 1)

\* the printable ASCII characters, code points 32..126 (96 is spelled out)
Ascii ==
    <<" ", "!", "\"", "#", "$", "%", "&", "'", "(", ")", "*", "+", ",", "-",
      ".", "/", "0", "1", "2", "3", "4", "5", "6", "7", "8", "9", ":", ";",
      "<", "=", ">", "?", "@", "A", "B", "C", "D", "E", "F", "G", "H", "I",
      "J", "K", "L", "M", "N", "O", "P", "Q", "R", "S", "T", "U", "V", "W",
      "X", "Y", "Z", "[", "\\", "]", "^", "_", "(grave)", "a", "b", "c", "d", "e",
      "f", "g", "h", "i", "j", "k", "l", "m", "n", "o", "p", "q", "r", "s",
      "t", "u", "v", "w", "x", "y", "z", "{", "|", "}", "~">>

Ord(c) == (CHOOSE i \in 1..Len(Ascii) : Ascii[i] = c) + 31
Chr(b) == Ascii[b - 31]

\* str.encode() and bytes.decode() (UTF-8) on printable ASCII text
str_encode(s) == [i \in 1..Len(s) |-> Ord(s[i])]
bytes_decode(b) ==
    IF \A i \in 1..Len(b) : b[i] \in 32..126
    THEN Ok(Str([i \in 1..Len(b) |-> Chr(b[i])]))
    ELSE Raise("UnicodeDecodeError", "invalid start byte")

(***************************************************************************)
(* bson.objectid.ObjectId, as PyObjectId.validate uses it.                 *)
(***************************************************************************)
\* bytes.fromhex: whitespace between byte pairs is skipped, every byte is
\* two hex digits of either case
RECURSIVE fromhex_at(_, _)
fromhex_at(s, i) ==
    IF i > Len(s) THEN [ok |-> TRUE, bytes |-> <<>>]
    ELSE IF IsSpace(s[i]) THEN fromhex_at(s, i + 1)
    ELSE IF i + 1 > Len(s) \/ ~IsHexChar(s[i]) \/ ~IsHexChar(s[i + 1])
         THEN [ok |-> FALSE, bytes |-> <<>>]
    ELSE LET r == fromhex_at(s, i + 2)
         IN  IF r.ok
             THEN [ok |-> TRUE,
                   bytes |-> <<16 * HexVal(s[i]) + HexVal(s[i + 1])>> \o r.bytes]
             ELSE r

bytes_fromhex(s) == fromhex_at(s, 1)

\* a hexlify that prints uppercase digits
RECURSIVE hexlify_uppercase(_)
hexlify_uppercase(b) ==
    IF b = <<>> THEN <<>>
    ELSE <<HexUpper[(Head(b) \div 16) + 1], HexUpper[(Head(b) % 16) + 1]>>
         \o hexlify_uppercase(Tail(b))

\* binascii.hexlify: two lowercase hex digits per byte
RECURSIVE hexlify(_)
hexlify(b) ==
    IF b = <<>> THEN <<>>
    ELSE <<HexLower[(Head(b) \div 16) + 1], HexLower[(Head(b) % 16) + 1]>>
         \o hexlify(Tail(b))

\* length of the string form of an ObjectId
IdLen == 24

\* an ObjectId(oid) that does not check the length of the text
ObjectId_new_any_length(v) ==
    IF v.type = "str" /\ bytes_fromhex(v.val).ok
    THEN Ok(Val("bson.ObjectId", bytes_fromhex(v.val).bytes))
    ELSE Raise("InvalidId", "not a valid ObjectId")

\* ObjectId(oid) for a str: 24 characters that bytes.fromhex decodes
ObjectId_new(v) ==
    IF v.type = "str" /\ Len(v.val) = IdLen /\ bytes_fromhex(v.val).ok
    THEN Ok(Val("bson.ObjectId", bytes_fromhex(v.val).bytes))
    ELSE Raise("InvalidId", "not a valid ObjectId")

\* ObjectId.is_valid(oid): falsy input is invalid, else ObjectId(oid) succeeds
ObjectId_is_valid(v) ==
    /\ ~(v.type = "str" /\ v.val = <<>>)
    /\ v.type # "NoneType"
    /\ ObjectId_new(v).raised = "none"

\* str(ObjectId)
ObjectId_str(o) == hexlify(o.val)

PyObjectId_validate(v) ==
    IF issubclass(v.type, "bson.ObjectId") \/ issubclass(v.type, "PyObjectId")
    THEN Ok(v)
    ELSE IF v.type = "str" /\ ObjectId_is_valid(v)
    THEN ObjectId_new(v)
    ELSE Raise("TypeError", "invalid ObjectId specified")

(***************************************************************************)
(* Numbers.  A Python int is [neg, digits]; a decimal.Decimal, a wire      *)
(* Decimal128 and a float carry [sign, digits, exp, special]: coefficient  *)
(* digits times 10^exp, or a NaN / Infinity.  A float is held as the       *)
(* decimal its repr prints, which determines it: the explored decimals     *)
(* have at most 15 significant digits, and every such decimal converts to  *)
(* the double that prints back as the same number.                         *)
(***************************************************************************)
RECURSIVE StripLeadingZeros(_)
StripLeadingZeros(ds) ==
    IF Len(ds) > 1 /\ Head(ds) = 0 THEN StripLeadingZeros(Tail(ds)) ELSE ds

RECURSIVE StripTrailingZeros(_)
StripTrailingZeros(ds) ==
    IF Len(ds) > 1 /\ ds[Len(ds)] = 0
    THEN StripTrailingZeros(SubSeq(ds, 1, Len(ds) - 1))
    ELSE ds

IsZero(ds) == \A i \in 1..Len(ds) : ds[i] = 0

PyInt(neg, ds) ==
    LET n == StripLeadingZeros(IF ds = <<>> THEN <<0>> ELSE ds)
    IN  Val("int", [neg |-> neg /\ ~IsZero(n), digits |-> n])

\* str.strip()
RECURSIVE LStrip(_)
LStrip(s) == IF s # <<>> /\ IsSpace(Head(s)) THEN LStrip(Tail(s)) ELSE s

RECURSIVE RStrip(_)
RStrip(s) ==
    IF s # <<>> /\ IsSpace(s[Len(s)]) THEN RStrip(SubSeq(s, 1, Len(s) - 1)) ELSE s

Strip(s) == RStrip(LStrip(s))

AllDigits(s) == \A i \in 1..Len(s) : IsDigit(s[i])
DigitsOf(s) == [i \in 1..Len(s) |-> DigitVal(s[i])]
CharsOf(ds) == [i \in 1..Len(ds) |-> Digits[ds[i] + 1]]
HasSign(s) == s # <<>> /\ Head(s) \in {"+", "-"}
Unsigned(s) == IF HasSign(s) THEN Tail(s) ELSE s
\* position of the first character of s that is in cs, 0 when there is none
Find(s, cs) ==
    IF \E i \in 1..Len(s) : s[i] \in cs
    THEN CHOOSE i \in 1..Len(s) : s[i] \in cs /\ \A j \in 1..(i - 1) : s[j] \notin cs
    ELSE 0

\* value of a short digit sequence (an exponent)
RECURSIVE SmallNat(_)
SmallNat(ds) ==
    IF ds = <<>> THEN 0 ELSE 10 * SmallNat(SubSeq(ds, 1, Len(ds) - 1)) + ds[Len(ds)]

\* int(text): optional sign, decimal digits, surrounding whitespace
int_of_text(s) ==
    LET t == Strip(s)
        body == Unsigned(t)
    IN  IF body # <<>> /\ AllDigits(body)
        THEN Ok(PyInt(HasSign(t) /\ Head(t) = "-", DigitsOf(body)))
        ELSE Raise("ValueError", "invalid literal for int() with base 10")

\* int(x) of a finite decimal or float: truncation toward zero
trunc(d) ==
    IF d.exp >= 0
    THEN PyInt(d.sign = 1, d.digits \o Fill(0, d.exp))
    ELSE PyInt(d.sign = 1, SubSeq(d.digits, 1, Len(d.digits) + d.exp))

\* builtin int(v)
int_new(v) ==
    CASE issubclass(v.type, "int") /\ v.type # "bool" -> Ok(Val("int", v.val))
      [] v.type = "bool" -> Ok(PyInt(FALSE, <<IF v.val THEN 1 ELSE 0>>))
      [] v.type = "str" -> int_of_text(v.val)
      [] v.type \in {"bytes", "bytearray"} ->
            IF bytes_decode(v.val).raised = "none"
            THEN int_of_text(bytes_decode(v.val).value.val)
            ELSE Raise("ValueError", "invalid literal for int() with base 10")
      [] v.type \in {"float", "decimal.Decimal", "_decimalDecimal"} ->
            IF v.val.special = "NaN"
            THEN Raise("ValueError", "cannot convert NaN to integer")
            ELSE IF v.val.special = "Infinity"
            THEN Raise("OverflowError", "cannot convert infinity to integer")
            ELSE Ok(trunc(v.val))
      [] OTHER -> Raise("TypeError", "int() argument must be a string or a number")

\* pydantic.validators.int_validator
int_validator(v) ==
    IF issubclass(v.type, "int") /\ v.type # "bool"
    THEN Ok(v)
    ELSE IF int_new(v).raised \in {"TypeError", "ValueError", "OverflowError"}
    THEN Raise("IntegerError", "value is not a valid integer")
    ELSE int_new(v)

\* bson.int64.Int64(a): a plain subclass of int, built without a range check
Int64_new(a) == Val("bson.int64.Int64", a.val)

Int64_validate(v) ==
    IF issubclass(v.type, "bson.int64.Int64")
    THEN Ok(v)
    ELSE LET a == int_validator(v)
         IN  IF a.raised # "none" THEN a ELSE Ok(Int64_new(a.value))

Dec(sign, ds, e) == [sign |-> sign, digits |-> ds, exp |-> e, special |-> ""]
DecSpecial(sign, what) == [sign |-> sign, digits |-> <<0>>, exp |-> 0, special |-> what]

Lower(s) ==
    [i \in 1..Len(s) |->
        CASE s[i] = "N" -> "n" [] s[i] = "A" -> "a" [] s[i] = "I" -> "i"
          [] s[i] = "F" -> "f" [] s[i] = "T" -> "t" [] s[i] = "Y" -> "y"
          [] s[i] = "E" -> "e" [] OTHER -> s[i]]

\* decimal.Decimal(text): sign, digits with an optional point, an optional
\* exponent; or NaN / Inf / Infinity
Decimal_of_text(s) ==
    LET sign == IF HasSign(s) /\ Head(s) = "-" THEN 1 ELSE 0
        body == Unsigned(s)
        e == Find(body, {"e", "E"})
        mant == IF e = 0 THEN body ELSE SubSeq(body, 1, e - 1)
        expo == IF e = 0 THEN <<>> ELSE SubSeq(body, e + 1, Len(body))
        dot == Find(mant, {"."})
        ip == IF dot = 0 THEN mant ELSE SubSeq(mant, 1, dot - 1)
        fp == IF dot = 0 THEN <<>> ELSE SubSeq(mant, dot + 1, Len(mant))
        expOk == e = 0 \/ (Unsigned(expo) # <<>> /\ AllDigits(Unsigned(expo)))
        expVal == IF e = 0 THEN 0
                  ELSE IF HasSign(expo) /\ Head(expo) = "-"
                       THEN 0 - SmallNat(DigitsOf(Unsigned(expo)))
                       ELSE SmallNat(DigitsOf(Unsigned(expo)))
    IN  IF Lower(body) = <<"n", "a", "n">>
        THEN Ok(Val("decimal.Decimal", DecSpecial(sign, "NaN")))
        ELSE IF Lower(body) \in {<<"i", "n", "f">>,
                                 <<"i", "n", "f", "i", "n", "i", "t", "y">>}
        THEN Ok(Val("decimal.Decimal", DecSpecial(sign, "Infinity")))
        ELSE IF AllDigits(ip) /\ AllDigits(fp) /\ Len(ip) + Len(fp) >= 1 /\ expOk
        THEN Ok(Val("decimal.Decimal",
                    Dec(sign, StripLeadingZeros(DigitsOf(ip \o fp)),
                        expVal - Len(fp))))
        ELSE Raise("decimal.InvalidOperation", "ConversionSyntax")

\* str(int)
int_str(n) == (IF n.neg THEN <<"-">> ELSE <<>>) \o CharsOf(n.digits)

\* the decimal digits of a natural number
RECURSIVE NatChars(_)
NatChars(n) ==
    IF n < 10 THEN <<Digits[n + 1]>> ELSE NatChars(n \div 10) \o <<Digits[(n % 10) + 1]>>

\* the digits cs with the decimal point after the first dotplace of them
Pointed(cs, dotplace) ==
    IF dotplace <= 0 THEN <<"0", ".">> \o Fill("0", 0 - dotplace) \o cs
    ELSE IF dotplace >= Len(cs) THEN cs \o Fill("0", dotplace - Len(cs))
    ELSE SubSeq(cs, 1, dotplace) \o <<".">> \o SubSeq(cs, dotplace + 1, Len(cs))

\* Decimal.__str__: plain notation while the exponent is at most 0 and the
\* number has fewer than six leading fractional zeros, else scientific
Decimal_str(d) ==
    LET sg == IF d.sign = 1 THEN <<"-">> ELSE <<>>
        cs == CharsOf(d.digits)
        leftdigits == d.exp + Len(cs)
        dotplace == IF d.exp <= 0 /\ leftdigits > -6 THEN leftdigits ELSE 1
        e == leftdigits - dotplace
    IN  IF d.special = "NaN" THEN sg \o <<"N", "a", "N">>
        ELSE IF d.special = "Infinity"
        THEN sg \o <<"I", "n", "f", "i", "n", "i", "t", "y">>
        ELSE sg \o Pointed(cs, dotplace)
             \o (IF e = 0 THEN <<>>
                 ELSE <<"E", IF e < 0 THEN "-" ELSE "+">>
                      \o NatChars(IF e < 0 THEN 0 - e ELSE e))

\* repr(float): fixed notation while the decimal point falls within -4..16
\* of the first digit, else scientific with an exponent of two digits
float_str(d) ==
    LET sg == IF d.sign = 1 THEN <<"-">> ELSE <<>>
        cs == CharsOf(d.digits)
        decpt == d.exp + Len(cs)
        e == decpt - 1
    IN  IF d.special = "NaN" THEN <<"n", "a", "n">>
        ELSE IF d.special = "Infinity" THEN sg \o <<"i", "n", "f">>
        ELSE IF IsZero(d.digits) THEN sg \o <<"0", ".", "0">>
        ELSE IF -4 < decpt /\ decpt <= 16
        THEN sg \o Pointed(cs, decpt) \o (IF decpt >= Len(cs) THEN <<".", "0">> ELSE <<>>)
        ELSE sg \o Pointed(cs, 1)
             \o <<"e", IF e < 0 THEN "-" ELSE "+">>
             \o (IF e > -10 /\ e < 10 THEN <<"0">> ELSE <<>>)
             \o NatChars(IF e < 0 THEN 0 - e ELSE e)

\* str(v) of a number
number_str(v) ==
    CASE v.type = "bool" ->
            IF v.val THEN <<"T", "r", "u", "e">> ELSE <<"F", "a", "l", "s", "e">>
      [] issubclass(v.type, "int") /\ v.type # "bool" -> int_str(v.val)
      [] v.type = "float" -> float_str(v.val)
      [] OTHER -> Decimal_str(v.val)

IsNumber(v) ==
    issubclass(v.type, "int") \/ v.type = "float" \/ issubclass(v.type, "decimal.Decimal")

\* bson Decimal128.to_decimal(): the exact decimal
to_decimal(v) == Val("decimal.Decimal", v.val)

\* float(Decimal): the nearest double, held as the decimal its repr prints
float_of(d) ==
    IF d.special # "" THEN Val("float", d)
    ELSE LET ds == StripTrailingZeros(d.digits)
         IN  Val("float",
                 IF IsZero(ds) THEN Dec(d.sign, <<0>>, 0)
                 ELSE Dec(d.sign, ds, d.exp + (Len(d.digits) - Len(ds))))

\* pydantic.validators.decimal_validator
decimal_validator(v) ==
    IF issubclass(v.type, "decimal.Decimal")
    THEN Ok(v)
    ELSE LET text ==
                 CASE v.type = "str" -> Ok(v.val)
                   [] v.type \in {"bytes", "bytearray"} ->
                        IF bytes_decode(v.val).raised = "none"
                        THEN Ok(bytes_decode(v.val).value.val)
                        ELSE bytes_decode(v.val)
                   [] issubclass(v.type, "int") /\ v.type # "bool" -> Ok(int_str(v.val))
                   [] v.type = "bool" ->
                        Ok(IF v.val THEN <<"T", "r", "u", "e">>
                           ELSE <<"F", "a", "l", "s", "e">>)
                   [] v.type = "NoneType" -> Ok(<<"N", "o", "n", "e">>)
                   [] v.type = "float" -> Ok(float_str(v.val))
                   [] issubclass(v.type, "bson.decimal128.Decimal128") ->
                        Ok(Decimal_str(v.val))
                   [] OTHER -> Ok(<<"?">>)
             d == Decimal_of_text(Strip(text.value))
         IN  IF text.raised # "none" THEN text
             ELSE IF d.raised # "none"
             THEN Raise("DecimalError", "value is not a valid decimal")
             ELSE IF d.value.val.special # ""
             THEN Raise("DecimalIsNotFiniteError", "value is not a valid decimal")
             ELSE d

\* Decimal128.validate: the isinstance shortcut is commented out, and the
\* value returned is a float although the annotation says Decimal128
Decimal128_validate(v) ==
    LET a == decimal_validator(v)
    IN  IF a.raised # "none" THEN a ELSE Ok(float_of(a.value.val))

\* bson Decimal128(value): a Decimal is taken under the decimal128 context,
\* which traps Inexact (more than 34 digits); a str is parsed first
Decimal128_new(cls, v) ==
    LET d == IF v.type = "str" THEN Decimal_of_text(v.val) ELSE Ok(v)
    IN  IF ~(v.type = "str" \/ issubclass(v.type, "decimal.Decimal"))
        THEN Raise("TypeError", "Cannot convert to Decimal128")
        ELSE IF d.raised # "none" THEN d
        ELSE IF d.value.val.special = "" /\ Len(d.value.val.digits) > 34
        THEN Raise("decimal.Inexact", "")
        ELSE Ok(Val(cls, d.value.val))

decimalDecimal_validate(v) ==
    IF issubclass(v.type, "decimal.Decimal")
    THEN Ok(v)
    ELSE IF issubclass(v.type, "bson.decimal128.Decimal128")
    THEN Ok(to_decimal(v))
    ELSE decimal_validator(v)

\* Decimal128Codec.transform_python / transform_bson
transform_python(value) == Decimal128_new("Decimal128", value)

transform_bson(value) ==
    IF issubclass(value.type, "bson.decimal128.Decimal128")
    THEN Ok(float_of(to_decimal(value).val))
    ELSE Raise("AttributeError", "object has no attribute 'to_decimal'")

(***************************************************************************)
(* Bytes and patterns.                                                     *)
(***************************************************************************)
\* pydantic.validators.bytes_validator
bytes_validator(v) ==
    CASE issubclass(v.type, "bytes") -> Ok(v)
      [] v.type = "bytearray" -> Ok(Val("bytes", v.val))
      [] v.type = "str" -> Ok(Val("bytes", str_encode(v.val)))
      [] IsNumber(v) -> Ok(Val("bytes", str_encode(number_str(v))))
      [] OTHER -> Raise("BytesError", "byte type expected")

\* bson.binary.Binary(data): subtype 0
Binary_new(a) == Val("bson.binary.Binary", [data |-> a.val, subtype |-> 0])

Binary_validate(v) ==
    IF issubclass(v.type, "bson.binary.Binary")
    THEN Ok(v)
    ELSE LET a == bytes_validator(v)
         IN  IF a.raised # "none" THEN a ELSE Ok(Binary_new(a.value))

\* pydantic.validators.str_validator
str_validator(v) ==
    CASE v.type = "str" -> Ok(v)
      [] IsNumber(v) -> Ok(Str(number_str(v)))
      [] v.type \in {"bytes", "bytearray"} -> bytes_decode(v.val)
      [] OTHER -> Raise("StrError", "str type expected")

\* nesting depth of the groups of a pattern after its first n characters;
\* -1 once a group is closed that was never opened
RECURSIVE GroupDepth(_, _)
GroupDepth(p, n) ==
    IF n = 0 THEN 0
    ELSE LET d == GroupDepth(p, n - 1)
         IN  IF d < 0 THEN d
             ELSE IF p[n] = "(" THEN d + 1
             ELSE IF p[n] = ")" THEN d - 1
             ELSE d

\* re.compile(pattern, flags) on a str pattern: the groups must balance and
\* no repetition may come first; UNICODE is added unless ASCII is asked for
re_compile(pattern, flags) ==
    IF GroupDepth(pattern, Len(pattern)) # 0
       \/ (pattern # <<>> /\ Head(pattern) \in {"*", "+", "?"})
    THEN Raise("re.error", "invalid pattern")
    ELSE Ok(Val("re.Pattern",
                [pattern |-> pattern,
                 flags |-> flags \cup (IF "ASCII" \in flags THEN {} ELSE {"UNICODE"})]))

\* pydantic.validators.pattern_validator
pattern_validator(v) ==
    IF v.type = "re.Pattern"
    THEN Ok(v)
    ELSE LET str_value == str_validator(v)
         IN  IF str_value.raised # "none" THEN str_value
             ELSE IF re_compile(str_value.value.val, {}).raised # "none"
             THEN Raise("PatternError", "Invalid regular expression")
             ELSE re_compile(str_value.value.val, {})

\* bson.regex.Regex(pattern): flags default to 0
Regex_new(pattern) == Val("bson.regex.Regex", [pattern |-> pattern, flags |-> {}])

Regex_validate(v) ==
    IF issubclass(v.type, "bson.regex.Regex")
    THEN Ok(v)
    ELSE LET a == pattern_validator(v)
         IN  IF a.raised # "none" THEN a ELSE Ok(Regex_new(a.value.val.pattern))

Pattern_validate(v) ==
    IF v.type = "re.Pattern"
    THEN Ok(v)
    ELSE IF issubclass(v.type, "bson.regex.Regex")
    THEN re_compile(v.val.pattern, v.val.flags)
    ELSE pattern_validator(v)

(***************************************************************************)
(* Dates and times.  A datetime is [ord, hour, minute, second,             *)
(* microsecond, tz]: ord is the proleptic Gregorian ordinal of its date    *)
(* (1 is 0001-01-01, 3652059 is 9999-12-31), tz is "None" when it has no   *)
(* tzinfo, "NoOffset" for a tzinfo whose utcoffset() is None, else the     *)
(* offset in minutes as text.  A timedelta is [days, seconds,              *)
(* microseconds] as Python normalises it.                                  *)
(***************************************************************************)
IsLeap(y) == y % 4 = 0 /\ (y % 100 # 0 \/ y % 400 = 0)

DaysInMonth(y, m) ==
    IF m = 2 THEN (IF IsLeap(y) THEN 29 ELSE 28)
    ELSE IF m \in {4, 6, 9, 11} THEN 30 ELSE 31

RECURSIVE DaysBeforeMonth(_, _)
DaysBeforeMonth(y, m) ==
    IF m = 1 THEN 0 ELSE DaysBeforeMonth(y, m - 1) + DaysInMonth(y, m - 1)

DaysBeforeYear(y) ==
    (y - 1) * 365 + ((y - 1) \div 4) - ((y - 1) \div 100) + ((y - 1) \div 400)

\* datetime._ymd2ord and datetime._ord2ymd
ymd2ord(y, m, d) == DaysBeforeYear(y) + DaysBeforeMonth(y, m) + d

ord2ymd(ordinal) ==
    LET n0 == ordinal - 1
        n400 == n0 \div 146097
        r400 == n0 % 146097
        n100 == r400 \div 36524
        r100 == r400 % 36524
        n4 == r100 \div 1461
        r4 == r100 % 1461
        n1 == r4 \div 365
        n == r4 % 365
        year == n400 * 400 + 1 + n100 * 100 + n4 * 4 + n1
    IN  IF n1 = 4 \/ n100 = 4
        THEN [year |-> year - 1, month |-> 12, day |-> 31]
        ELSE LET month == CHOOSE m \in 1..12 :
                              /\ DaysBeforeMonth(year, m) <= n
                              /\ n < DaysBeforeMonth(year, m) + DaysInMonth(year, m)
             IN  [year |-> year, month |-> month,
                  day |-> n - DaysBeforeMonth(year, month) + 1]

\* "%0<w>d" % n
RECURSIVE Pad(_, _)
Pad(n, w) == IF w = 0 THEN <<>> ELSE Pad(n \div 10, w - 1) \o <<Digits[(n % 10) + 1]>>

utcoffset(tz) == IF tz \in {"None", "NoOffset"} THEN "None" ELSE tz

OffsetText(tz) ==
    CASE tz = "0" -> <<"+", "0", "0", ":", "0", "0">>
      [] tz = "60" -> <<"+", "0", "1", ":", "0", "0">>
      [] tz = "-300" -> <<"-", "0", "5", ":", "0", "0">>
      [] OTHER -> <<>>

\* date.isoformat(), time.isoformat(), datetime.isoformat()
date_isoformat(d) ==
    LET ymd == ord2ymd(d.ord)
    IN  Pad(ymd.year, 4) \o <<"-">> \o Pad(ymd.month, 2) \o <<"-">> \o Pad(ymd.day, 2)

time_isoformat_whole_seconds(t) ==
    Pad(t.hour, 2) \o <<":">> \o Pad(t.minute, 2) \o <<":">> \o Pad(t.second, 2)
    \o OffsetText(utcoffset(t.tz))

time_isoformat(t) ==
    Pad(t.hour, 2) \o <<":">> \o Pad(t.minute, 2) \o <<":">> \o Pad(t.second, 2)
    \o (IF t.microsecond # 0 THEN <<".">> \o Pad(t.microsecond, 6) ELSE <<>>)
    \o OffsetText(utcoffset(t.tz))

datetime_isoformat(d) == date_isoformat(d) \o <<"T">> \o time_isoformat(d)

\* datetime.time(): the time of day, without the tzinfo
datetime_time(d) ==
    Val("datetime.time",
        [hour |-> d.hour, minute |-> d.minute, second |-> d.second,
         microsecond |-> d.microsecond, tz |-> "None"])

\* datetime.min, and the largest ordinal a date may have
datetime_min ==
    Val("datetime.datetime",
        [ord |-> 1, hour |-> 0, minute |-> 0, second |-> 0, microsecond |-> 0,
         tz |-> "None"])

MaxOrdinal == 3652059

\* datetime + timedelta: the fields are summed with carries; a date outside
\* 0001-01-01 .. 9999-12-31 is an OverflowError
datetime_add(dt, td) ==
    LET us == dt.val.microsecond + td.val.microseconds
        s == dt.val.hour * 3600 + dt.val.minute * 60 + dt.val.second
             + td.val.seconds + (us \div 1000000)
        days == dt.val.ord + td.val.days + (s \div 86400)
        rem == s % 86400
    IN  IF 0 < days /\ days <= MaxOrdinal
        THEN Ok(Val(dt.type,
                    [ord |-> days, hour |-> rem \div 3600,
                     minute |-> (rem % 3600) \div 60, second |-> rem % 60,
                     microsecond |-> us % 1000000, tz |-> dt.val.tz]))
        ELSE Raise("OverflowError", "date value out of range")

\* the value the name datetime is bound to in BsonTypes.py: line 7 imports
\* the module, line 8 imports only timedelta from it, and the star import of
\* decimal on line 28 exports no such name
datetime_global == [kind |-> "module", name |-> "datetime"]

\* builtin isinstance(v, classinfo): classinfo must be a class
isinstance(v, classinfo) ==
    IF classinfo.kind # "class"
    THEN Raise("TypeError", "isinstance() arg 2 must be a type, a tuple of types, or a union")
    ELSE Ok(Val("bool", issubclass(v.type, classinfo.name)))

\* pydantic.datetime_parse.parse_datetime on text of the shape
\* YYYY-MM-DDTHH:MM:SS, optionally followed by .ffffff and by Z
parse_datetime(v) ==
    IF issubclass(v.type, "datetime.datetime") THEN Ok(v)
    ELSE IF v.type # "str"
    THEN Raise("TypeError", "invalid type; expected datetime, string, bytes, int or float")
    ELSE LET s == v.val
             n == Len(s)
             zulu == n > 0 /\ s[n] = "Z"
             body == IF zulu THEN SubSeq(s, 1, n - 1) ELSE s
             num(i, j) == SmallNat(DigitsOf(SubSeq(body, i, j)))
             shaped ==
                 /\ Len(body) \in {19, 26}
                 /\ \A i \in 1..Len(body) :
                        IF i \in {5, 8} THEN body[i] = "-"
                        ELSE IF i = 11 THEN body[i] \in {"T", " "}
                        ELSE IF i \in {14, 17} THEN body[i] = ":"
                        ELSE IF i = 20 THEN body[i] = "."
                        ELSE IsDigit(body[i])
             valid ==
                 /\ shaped
                 /\ num(1, 4) \in 1..9999
                 /\ num(6, 7) \in 1..12
                 /\ num(9, 10) \in 1..DaysInMonth(num(1, 4), num(6, 7))
                 /\ num(12, 13) \in 0..23
                 /\ num(15, 16) \in 0..59
                 /\ num(18, 19) \in 0..59
         IN  IF ~valid THEN Raise("DateTimeError", "invalid datetime format")
             ELSE Ok(Val("datetime.datetime",
                         [ord |-> ymd2ord(num(1, 4), num(6, 7), num(9, 10)),
                          hour |-> num(12, 13), minute |-> num(15, 16),
                          second |-> num(18, 19),
                          microsecond |-> IF Len(body) = 26 THEN num(21, 26) ELSE 0,
                          tz |-> IF zulu THEN "0" ELSE "None"]))

\* DateTime.validate: the isinstance test names the module datetime, not the
\* class datetime.datetime
DateTime_validate(v) ==
    LET isdt == isinstance(v, datetime_global)
        d == IF isdt.value.val THEN Ok(v) ELSE parse_datetime(v)
    IN  IF isdt.raised # "none" THEN isdt
        ELSE IF d.raised # "none" THEN d
        ELSE IF d.value.val.tz # "None" /\ utcoffset(d.value.val.tz) # "None"
        THEN Raise("ValueError", "datetime objects must be naive (no timezone info)")
        ELSE LET microsecs == d.value.val.microsecond - (d.value.val.microsecond % 1000)
             IN  Ok(Val(d.value.type, [d.value.val EXCEPT !.microsecond = microsecs]))

(***************************************************************************)
(* JsonEncoder.default                                                     *)
(***************************************************************************)
JsonEncoder_default(o) ==
    IF issubclass(o.type, "bson.decimal128.Decimal128")
    THEN Ok(float_of(to_decimal(o).val))
    ELSE IF issubclass(o.type, "bson.ObjectId")
    THEN Ok(Str(ObjectId_str(o)))
    ELSE IF issubclass(o.type, "datetime.datetime")
    THEN Ok(Str(datetime_isoformat(o.val)))
    ELSE IF issubclass(o.type, "datetime.date")
    THEN Ok(Str(date_isoformat(o.val)))
    ELSE IF issubclass(o.type, "datetime.time")
    THEN Ok(Str(time_isoformat(o.val)))
    ELSE IF issubclass(o.type, "datetime.timedelta")
    THEN LET sum == datetime_add(datetime_min, o)
         IN  IF sum.raised # "none" THEN sum
             ELSE Ok(Str(time_isoformat(datetime_time(sum.value.val).val)))
    ELSE Raise("TypeError", "Object of type is not JSON serializable")

(***************************************************************************)
(* Module-level tables.                                                    *)
(***************************************************************************)
\* bson.codec_options.TypeRegistry(type_codecs): the encoder map is keyed by
\* each codec's python_type, the decoder map by its bson_type
TypeRegistry(codecs) ==
    [encoders |-> [t \in {codecs[i].python_type : i \in 1..Len(codecs)} |->
                      "transform_python"],
     decoders |-> [t \in {codecs[i].bson_type : i \in 1..Len(codecs)} |->
                      "transform_bson"]]

Decimal128Codec == [python_type |-> "decimal.Decimal", bson_type |-> "Decimal128"]

SubstitutedFields ==
    [t \in {"bson.ObjectId", "bson.int64.Int64", "bson.decimal128.Decimal128",
            "bson.binary.Binary", "bson.regex.Regex", "typing.Pattern",
            "decimal.Decimal", "datetime.datetime"} |->
        CASE t = "bson.ObjectId" -> "PyObjectId"
          [] t = "bson.int64.Int64" -> "Int64"
          [] t = "bson.decimal128.Decimal128" -> "Decimal128"
          [] t = "bson.binary.Binary" -> "Binary"
          [] t = "bson.regex.Regex" -> "Regex"
          [] t = "typing.Pattern" -> "_Pattern"
          [] t = "decimal.Decimal" -> "_decimalDecimal"
          [] t = "datetime.datetime" -> "DateTime"]

TypesEncoders ==
    [t \in {"bson.ObjectId", "bson.decimal128.Decimal128", "bson.regex.Regex"} |->
        CASE t = "bson.ObjectId" -> "str"
          [] t = "bson.decimal128.Decimal128" -> "float(x.to_decimal())"
          [] t = "bson.regex.Regex" -> "x.pattern"]

\* dict[key]: a KeyError for a missing key
dict_getitem(d, k) ==
    IF k \in DOMAIN d THEN Ok(Val("type", d[k])) ELSE Raise("KeyError", k)

\* dict.get(key): the mapped value, or None without raising
dict_get(d, k) == IF k \in DOMAIN d THEN Ok(Val("type", d[k])) ELSE Ok(None)

(***************************************************************************)
(* Inputs.                                                                 *)
(***************************************************************************)
IdAlphabet == {"a", "F", "g", " "}

RECURSIVE Words(_, _)
Words(A, n) ==
    IF n = 0 THEN {<<>>}
    ELSE {<<c>> \o w : c \in A, w \in Words(A, n - 1)}

\* n lowercase hex digits, cycling through all sixteen
HexFill(n) == [i \in 1..n |-> HexLower[((i - 1) % 16) + 1]]

\* identifier strings: MaxVar free characters, then hex digits up to a
\* length of 23, 24 or 25; the empty string; 24 blanks
IdStrings ==
    {Str(w \o HexFill(n - MaxVar)) :
        w \in Words(IdAlphabet, MaxVar), n \in {IdLen - 1, IdLen, IdLen + 1}}
    \cup {Str(<<>>), Str(Fill(" ", IdLen))}

ObjectIds ==
    {Val(t, <<0, 1, 2, 3, 4, 5, 6, 7, 8, 9, 171, 255>>) :
        t \in {"bson.ObjectId", "PyObjectId"}}


IntDigits ==
    {<<0>>, <<1>>, <<4, 2>>, <<2, 1, 4, 7, 4, 8, 3, 6, 4, 9>>,
     <<9, 2, 2, 3, 3, 7, 2, 0, 3, 6, 8, 5, 4, 7, 7, 5, 8, 0, 7>>,
     <<9, 2, 2, 3, 3, 7, 2, 0, 3, 6, 8, 5, 4, 7, 7, 5, 8, 0, 8>>,
     <<9, 2, 2, 3, 3, 7, 2, 0, 3, 6, 8, 5, 4, 7, 7, 5, 8, 0, 9>>}

Ints == {PyInt(neg, ds) : neg \in BOOLEAN, ds \in IntDigits}
Int64s == {Val(t, n.val) : t \in {"bson.int64.Int64", "Int64"}, n \in Ints}
Bools == {Val("bool", b) : b \in BOOLEAN}

IntTexts ==
    {Str(pre \o sg \o CharsOf(ds) \o post) :
        pre \in {<<>>, <<" ">>}, sg \in {<<>>, <<"-">>, <<"+">>},
        ds \in {<<7>>, <<0, 4, 2>>,
                <<9, 2, 2, 3, 3, 7, 2, 0, 3, 6, 8, 5, 4, 7, 7, 5, 8, 0, 8>>},
        post \in {<<>>, <<" ">>, <<".", "5">>}}
    \cup {Str(<<>>), Str(<<"a", "b", "c">>)}

DecimalValues ==
    {Dec(sg, ds, e) :
        sg \in {0, 1},
        ds \in {<<0>>, <<1, 5>>, <<1, 5, 0>>, <<2, 1, 4, 7, 4, 8, 3, 6, 4, 9>>},
        e \in {-7, -2, -1, 0}}

Floats ==
    {float_of(d) : d \in DecimalValues}
    \cup {Val("float", DecSpecial(0, "NaN")), Val("float", DecSpecial(0, "Infinity")),
          Val("float", DecSpecial(1, "Infinity"))}

Decimals ==
    {Val(t, d) : t \in {"decimal.Decimal", "_decimalDecimal"}, d \in DecimalValues}
    \cup {Val("decimal.Decimal", DecSpecial(0, "NaN")),
          Val("decimal.Decimal", DecSpecial(1, "Infinity"))}

Decimal128s ==
    {Val(t, d) : t \in {"bson.decimal128.Decimal128", "Decimal128"}, d \in DecimalValues}
    \cup {Val("bson.decimal128.Decimal128", DecSpecial(0, "NaN")),
          Val("bson.decimal128.Decimal128", DecSpecial(0, "Infinity"))}

DecimalTexts ==
    {Str(pre \o sg \o body \o post) :
        pre \in {<<>>, <<" ">>}, sg \in {<<>>, <<"-">>},
        body \in {<<"1", ".", "5">>, <<"2", "1", "4", ".", "7", "4", "8">>,
                  <<".", "5">>, <<"0", "7", ".">>, <<"1", "e", "2">>,
                  <<"1", "E", "-", "2">>, <<"N", "a", "N">>, <<"i", "n", "f">>,
                  <<".">>, <<"1", ".", "2", ".", "3">>, <<"1", "e">>, <<>>},
        post \in {<<>>, <<" ">>}}

\* a Decimal of 35 digits, one more than decimal128 holds
WideDecimal == Val("decimal.Decimal", Dec(0, Fill(1, 35), 0))

ByteStrings == {<<>>, <<52, 50>>, <<49, 46, 53>>, <<0, 255>>, <<40>>}
Bytes == {Val(t, b) : t \in {"bytes", "bytearray"}, b \in ByteStrings}
Binaries ==
    {Val(t, [data |-> b, subtype |-> st]) :
        t \in {"bson.binary.Binary", "Binary"}, b \in ByteStrings, st \in {0, 4}}

PatternTexts ==
    {<<>>, <<"^", "F", "o", "o">>, <<"(", "a", ")", "*">>, <<"(">>, <<"a", ")">>,
     <<"*", "a">>, <<"4", "2">>}
FlagSets == {{}, {"IGNORECASE"}, {"ASCII", "IGNORECASE"}}
Regexes ==
    {Val(t, [pattern |-> p, flags |-> f]) :
        t \in {"bson.regex.Regex", "Regex"}, p \in PatternTexts, f \in FlagSets}
Patterns ==
    {re_compile(p, f).value :
        p \in {q \in PatternTexts : re_compile(q, {}).raised = "none"}, f \in FlagSets}

Ordinals == {1 + d : d \in 0..MaxDays} \cup {737425, 737484, MaxOrdinal}
Clock == {<<0, 0, 0>>, <<1, 0, 0>>, <<23, 59, 59>>}
Micros == {0, 1, 999, 1000, 1500, 999999}
Zones == {"None", "NoOffset", "0", "60", "-300"}

DateTimes ==
    {Val(t, [ord |-> o, hour |-> c[1], minute |-> c[2], second |-> c[3],
             microsecond |-> us, tz |-> tz]) :
        t \in {"datetime.datetime", "DateTime"}, o \in Ordinals, c \in Clock,
        us \in Micros, tz \in Zones}

Dates == {Val("datetime.date", [ord |-> o]) : o \in Ordinals}

Times ==
    {Val("datetime.time", [hour |-> c[1], minute |-> c[2], second |-> c[3],
                           microsecond |-> us, tz |-> tz]) :
        c \in Clock, us \in Micros, tz \in Zones}

DateTimeTexts ==
    {Str(d \o <<sep>> \o t \o f \o z) :
        d \in {<<"2", "0", "2", "0", "-", "0", "2", "-", "2", "9">>,
               <<"2", "0", "2", "1", "-", "0", "2", "-", "2", "9">>,
               <<"0", "0", "0", "1", "-", "0", "1", "-", "0", "1">>},
        sep \in {"T", " ", "x"},
        t \in {<<"2", "3", ":", "5", "9", ":", "5", "9">>,
               <<"2", "4", ":", "0", "0", ":", "0", "0">>},
        f \in {<<>>, <<".", "0", "0", "1", "5", "0", "0">>},
        z \in {<<>>, <<"Z">>}}

\* timedelta(days, seconds, microseconds), normalised: a negative duration
\* has negative days; the day counts reach both ends of what a timedelta
\* and a date can hold
DurationDays ==
    {-999999999, -1} \cup (0..MaxDays)
    \cup {MaxOrdinal - 2, MaxOrdinal - 1, MaxOrdinal, 999999999}
DurationSeconds == {0, 1, 59, 60, 3599, 3600, 3661, 43200, 86399}
DurationMicros == {0, 1, 1000, 999999}

Durations ==
    {Val("datetime.timedelta", [days |-> d, seconds |-> s, microseconds |-> us]) :
        d \in DurationDays, s \in DurationSeconds, us \in DurationMicros}

RuntimeTypes ==
    {"bson.ObjectId", "bson.int64.Int64", "bson.decimal128.Decimal128",
     "bson.binary.Binary", "bson.regex.Regex", "typing.Pattern",
     "decimal.Decimal", "datetime.datetime",
     "str", "int", "float", "bytes", "bool", "NoneType", "datetime.date",
     "datetime.time", "datetime.timedelta",
     "PyObjectId", "Int64", "Decimal128", "Binary", "Regex", "_Pattern",
     "_decimalDecimal", "DateTime"}

(***************************************************************************)
(* The state machine.                                                      *)
(***************************************************************************)
Init ==
    /\ decimal_codec = Decimal128Codec
    /\ type_registry = TypeRegistry(<<>>)
    /\ codec_options = [type_registry |-> TypeRegistry(<<>>)]
    /\ BSON_TYPES_ENCODERS = TypesEncoders
    /\ BSON_SUBSTITUTED_FIELDS = SubstitutedFields
    /\ op = "idle"
    /\ arg = None
    /\ outcome = Ok(None)
    /\ calls = 0

\* The calls are synchronous: the caller makes one call, which yields its
\* outcome, and takes the outcome before it makes the next.  No operation
\* of the module assigns a module global.
Return ==
    /\ op # "idle"
    /\ op' = "idle"
    /\ arg' = None
    /\ outcome' = Ok(None)
    /\ UNCHANGED <<tables, calls>>

Do_PyObjectId_validate(v) ==
    /\ op' = "PyObjectId.validate"
    /\ arg' = v
    /\ outcome' = PyObjectId_validate(v)
    /\ calls' = calls + 1
    /\ UNCHANGED tables

Call_PyObjectId_validate ==
    /\ op = "idle"
    /\ calls < MaxCalls
    /\ \/ \E v \in IdStrings : Do_PyObjectId_validate(v)
       \/ \E v \in ObjectIds : Do_PyObjectId_validate(v)
       \/ \E v \in Ints : Do_PyObjectId_validate(v)
       \/ Do_PyObjectId_validate(None)

Do_Int64_validate(v) ==
    /\ op' = "Int64.validate"
    /\ arg' = v
    /\ outcome' = Int64_validate(v)
    /\ calls' = calls + 1
    /\ UNCHANGED tables

Call_Int64_validate ==
    /\ op = "idle"
    /\ calls < MaxCalls
    /\ \/ \E v \in Int64s : Do_Int64_validate(v)
       \/ \E v \in Ints : Do_Int64_validate(v)
       \/ \E v \in Bools : Do_Int64_validate(v)
       \/ \E v \in IntTexts : Do_Int64_validate(v)
       \/ \E v \in Floats : Do_Int64_validate(v)
       \/ \E v \in Bytes : Do_Int64_validate(v)
       \/ \E v \in Decimals : Do_Int64_validate(v)
       \/ Do_Int64_validate(None)

Do_Decimal128_validate(v) ==
    /\ op' = "Decimal128.validate"
    /\ arg' = v
    /\ outcome' = Decimal128_validate(v)
    /\ calls' = calls + 1
    /\ UNCHANGED tables

Call_Decimal128_validate ==
    /\ op = "idle"
    /\ calls < MaxCalls
    /\ \/ \E v \in Decimal128s : Do_Decimal128_validate(v)
       \/ \E v \in Decimals : Do_Decimal128_validate(v)
       \/ \E v \in DecimalTexts : Do_Decimal128_validate(v)
       \/ \E v \in Ints : Do_Decimal128_validate(v)
       \/ \E v \in Floats : Do_Decimal128_validate(v)
       \/ \E v \in Bytes : Do_Decimal128_validate(v)
       \/ \E v \in Bools : Do_Decimal128_validate(v)
       \/ Do_Decimal128_validate(None)

Do_Binary_validate(v) ==
    /\ op' = "Binary.validate"
    /\ arg' = v
    /\ outcome' = Binary_validate(v)
    /\ calls' = calls + 1
    /\ UNCHANGED tables

Call_Binary_validate ==
    /\ op = "idle"
    /\ calls < MaxCalls
    /\ \/ \E v \in Binaries : Do_Binary_validate(v)
       \/ \E v \in Bytes : Do_Binary_validate(v)
       \/ \E v \in IntTexts : Do_Binary_validate(v)
       \/ \E v \in Ints : Do_Binary_validate(v)
       \/ \E v \in Floats : Do_Binary_validate(v)
       \/ Do_Binary_validate(None)

Do_Regex_validate(v) ==
    /\ op' = "Regex.validate"
    /\ arg' = v
    /\ outcome' = Regex_validate(v)
    /\ calls' = calls + 1
    /\ UNCHANGED tables

Call_Regex_validate ==
    /\ op = "idle"
    /\ calls < MaxCalls
    /\ \/ \E v \in Regexes : Do_Regex_validate(v)
       \/ \E v \in Patterns : Do_Regex_validate(v)
       \/ \E v \in {Str(p) : p \in PatternTexts} : Do_Regex_validate(v)
       \/ \E v \in Ints : Do_Regex_validate(v)
       \/ \E v \in Bytes : Do_Regex_validate(v)
       \/ Do_Regex_validate(None)

Do_Pattern_validate(v) ==
    /\ op' = "_Pattern.validate"
    /\ arg' = v
    /\ outcome' = Pattern_validate(v)
    /\ calls' = calls + 1
    /\ UNCHANGED tables

Call_Pattern_validate ==
    /\ op = "idle"
    /\ calls < MaxCalls
    /\ \/ \E v \in Patterns : Do_Pattern_validate(v)
       \/ \E v \in Regexes : Do_Pattern_validate(v)
       \/ \E v \in {Str(p) : p \in PatternTexts} : Do_Pattern_validate(v)
       \/ \E v \in Ints : Do_Pattern_validate(v)
       \/ \E v \in Bytes : Do_Pattern_validate(v)
       \/ Do_Pattern_validate(None)

Do_DateTime_validate(v) ==
    /\ op' = "DateTime.validate"
    /\ arg' = v
    /\ outcome' = DateTime_validate(v)
    /\ calls' = calls + 1
    /\ UNCHANGED tables

Call_DateTime_validate ==
    /\ op = "idle"
    /\ calls < MaxCalls
    /\ \/ \E v \in DateTimes : Do_DateTime_validate(v)
       \/ \E v \in DateTimeTexts : Do_DateTime_validate(v)
       \/ \E v \in Dates : Do_DateTime_validate(v)
       \/ Do_DateTime_validate(None)

Do_decimalDecimal_validate(v) ==
    /\ op' = "_decimalDecimal.validate"
    /\ arg' = v
    /\ outcome' = decimalDecimal_validate(v)
    /\ calls' = calls + 1
    /\ UNCHANGED tables

Call_decimalDecimal_validate ==
    /\ op = "idle"
    /\ calls < MaxCalls
    /\ \/ \E v \in Decimals : Do_decimalDecimal_validate(v)
       \/ \E v \in Decimal128s : Do_decimalDecimal_validate(v)
       \/ \E v \in DecimalTexts : Do_decimalDecimal_validate(v)
       \/ \E v \in Ints : Do_decimalDecimal_validate(v)
       \/ \E v \in Floats : Do_decimalDecimal_validate(v)
       \/ Do_decimalDecimal_validate(None)

\* the codec's two transforms, called on the one instance decimal_codec
Do_transform_python(v) ==
    /\ op' = "decimal_codec.transform_python"
    /\ arg' = v
    /\ outcome' = transform_python(v)
    /\ calls' = calls + 1
    /\ UNCHANGED tables

Call_transform_python ==
    /\ op = "idle"
    /\ calls < MaxCalls
    /\ \/ \E v \in Decimals : Do_transform_python(v)
       \/ Do_transform_python(WideDecimal)
       \/ \E v \in DecimalTexts : Do_transform_python(v)
       \/ \E v \in Ints : Do_transform_python(v)
       \/ Do_transform_python(None)

Do_transform_bson(v) ==
    /\ op' = "decimal_codec.transform_bson"
    /\ arg' = v
    /\ outcome' = transform_bson(v)
    /\ calls' = calls + 1
    /\ UNCHANGED tables

Call_transform_bson ==
    /\ op = "idle"
    /\ calls < MaxCalls
    /\ \/ \E v \in Decimal128s : Do_transform_bson(v)
       \/ \E v \in Decimals : Do_transform_bson(v)
       \/ Do_transform_bson(None)

Do_JsonEncoder_default(v) ==
    /\ op' = "JsonEncoder.default"
    /\ arg' = v
    /\ outcome' = JsonEncoder_default(v)
    /\ calls' = calls + 1
    /\ UNCHANGED tables

Call_JsonEncoder_default ==
    /\ op = "idle"
    /\ calls < MaxCalls
    /\ \/ \E v \in Decimal128s : Do_JsonEncoder_default(v)
       \/ \E v \in ObjectIds : Do_JsonEncoder_default(v)
       \/ \E v \in DateTimes : Do_JsonEncoder_default(v)
       \/ \E v \in Dates : Do_JsonEncoder_default(v)
       \/ \E v \in Times : Do_JsonEncoder_default(v)
       \/ \E v \in Durations : Do_JsonEncoder_default(v)
       \/ \E v \in Ints : Do_JsonEncoder_default(v)
       \/ \E v \in Decimals : Do_JsonEncoder_default(v)
       \/ Do_JsonEncoder_default(None)

\* a lookup that remembers a miss in the table, as dict.setdefault would
Call_substituted_lookup_setdefault ==
    /\ op = "idle"
    /\ calls < MaxCalls
    /\ \E t \in RuntimeTypes :
        /\ op' = "_BSON_SUBSTITUTED_FIELDS.get"
        /\ arg' = Val("type", t)
        /\ outcome' = dict_get(BSON_SUBSTITUTED_FIELDS, t)
        /\ BSON_SUBSTITUTED_FIELDS' =
              [k \in DOMAIN BSON_SUBSTITUTED_FIELDS \cup {t} |->
                  IF k \in DOMAIN BSON_SUBSTITUTED_FIELDS
                  THEN BSON_SUBSTITUTED_FIELDS[k] ELSE "NoneType"]
        /\ calls' = calls + 1
        /\ UNCHANGED <<BSON_TYPES_ENCODERS, decimal_codec, type_registry,
                       codec_options>>

\* a read of the substitution table by the modelling layer
Call_substituted_lookup ==
    /\ op = "idle"
    /\ calls < MaxCalls
    /\ \E t \in RuntimeTypes :
        /\ op' = "_BSON_SUBSTITUTED_FIELDS.get"
        /\ arg' = Val("type", t)
        /\ outcome' = dict_get(BSON_SUBSTITUTED_FIELDS, t)
        /\ calls' = calls + 1
        /\ UNCHANGED tables

\* a read of the registry behind codec_options: the encoder for a Python
\* type, the decoder for a wire type
Call_encoder_lookup ==
    /\ op = "idle"
    /\ calls < MaxCalls
    /\ \E t \in RuntimeTypes :
        /\ op' = "type_registry.encoder"
        /\ arg' = Val("type", t)
        /\ outcome' = dict_get(codec_options.type_registry.encoders, t)
        /\ calls' = calls + 1
        /\ UNCHANGED tables

Call_decoder_lookup ==
    /\ op = "idle"
    /\ calls < MaxCalls
    /\ \E t \in RuntimeTypes :
        /\ op' = "type_registry.decoder"
        /\ arg' = Val("type", t)
        /\ outcome' = dict_get(codec_options.type_registry.decoders, t)
        /\ calls' = calls + 1
        /\ UNCHANGED tables

Next ==
    \/ Return
    \/ Call_PyObjectId_validate
    \/ Call_Int64_validate
    \/ Call_Decimal128_validate
    \/ Call_Binary_validate
    \/ Call_Regex_validate
    \/ Call_Pattern_validate
    \/ Call_DateTime_validate
    \/ Call_decimalDecimal_validate
    \/ Call_transform_python
    \/ Call_transform_bson
    \/ Call_JsonEncoder_default
    \/ Call_substituted_lookup
    \/ Call_encoder_lookup
    \/ Call_decoder_lookup

Spec == Init /\ [][Next]_vars

(***************************************************************************)
(* Properties.                                                             *)
(***************************************************************************)
Returned == op # "idle" /\ outcome.raised = "none"
Failed == op # "idle" /\ outcome.raised # "none"

AllHex(s) == \A i \in 1..Len(s) : IsHexChar(s[i])
IsLowerHexChar(c) == \E i \in 1..16 : HexLower[i] = c
LowerHex(s) == [i \in 1..Len(s) |-> HexLower[HexVal(s[i]) + 1]]
HexIdText == op = "PyObjectId.validate" /\ arg.type = "str"
                 /\ Len(arg.val) = IdLen /\ AllHex(arg.val)

\* C1 as claimed: every 24-hex-digit string that PyObjectId.validate accepts
\* comes back, through str, as exactly the same string.
C1_RoundTripExact ==
    (HexIdText /\ Returned) => ObjectId_str(outcome.value) = arg.val

\* C1 amended: every string of 24 hex digits of either case is accepted and
\* the string form of the identifier returned is the input in lowercase, so
\* it is the input itself exactly when the input has no uppercase digit.
C1_RoundTripLowercase ==
    HexIdText =>
        /\ outcome.raised = "none"
        /\ outcome.value.type = "bson.ObjectId"
        /\ ObjectId_str(outcome.value) = LowerHex(arg.val)
        /\ (ObjectId_str(outcome.value) = arg.val
              <=> \A i \in 1..IdLen : IsLowerHexChar(arg.val[i]))

C1_Witness ==
    /\ HexIdText /\ Returned
    /\ arg.val[1] = "F"
    /\ ObjectId_str(outcome.value)[1] = "f"

\* C2 as claimed: PyObjectId.validate accepts a string only if it is exactly
\* 24 lowercase hex characters, and rejects every other string with a
\* TypeError, returning no identifier.
C2_OnlyLowercaseHex ==
    (op = "PyObjectId.validate" /\ arg.type = "str") =>
        IF Len(arg.val) = IdLen /\ \A i \in 1..IdLen : IsLowerHexChar(arg.val[i])
        THEN outcome.raised = "none"
        ELSE outcome.raised = "TypeError" /\ outcome.value = None

\* C2 amended: PyObjectId.validate accepts a string only if it has exactly
\* 24 characters, each a hex digit of either case or whitespace that the hex
\* decoder skips; every string of 24 hex digits of either case is accepted;
\* a string of another length, or with a character that is neither a hex
\* digit nor whitespace, is rejected; every rejection is a TypeError and
\* returns no identifier.
C2_OnlyHexOfEitherCase ==
    (op = "PyObjectId.validate" /\ arg.type = "str") =>
        /\ outcome.raised = "none" =>
              /\ Len(arg.val) = IdLen
              /\ \A i \in 1..IdLen : IsHexChar(arg.val[i]) \/ IsSpace(arg.val[i])
        /\ (Len(arg.val) = IdLen /\ AllHex(arg.val)) => outcome.raised = "none"
        /\ outcome.raised # "none" =>
              /\ outcome.raised = "TypeError"
              /\ outcome.msg = "invalid ObjectId specified"
              /\ outcome.value = None

C2_Witness ==
    /\ op = "PyObjectId.validate" /\ arg.type = "str"
    /\ Len(arg.val) = IdLen
    /\ \E i \in 1..IdLen : arg.val[i] = "g"
    /\ outcome.raised = "TypeError"

IsNaive(d) == d.tz = "None" \/ utcoffset(d.tz) = "None"
DateTimeArg == op = "DateTime.validate" /\ issubclass(arg.type, "datetime.datetime")

\* C3: for every timezone-naive timestamp t, DateTime.validate(t) succeeds
\* and returns t with its microseconds truncated to a whole millisecond:
\* a multiple of 1000, at most t's, less than 1000 below it, every other
\* field unchanged.
C3_NaiveTruncatedToMilliseconds ==
    (DateTimeArg /\ IsNaive(arg.val)) =>
        /\ outcome.raised = "none"
        /\ issubclass(outcome.value.type, "datetime.datetime")
        /\ outcome.value.val.microsecond % 1000 = 0
        /\ outcome.value.val.microsecond <= arg.val.microsecond
        /\ arg.val.microsecond - outcome.value.val.microsecond < 1000
        /\ [outcome.value.val EXCEPT !.microsecond = 0]
              = [arg.val EXCEPT !.microsecond = 0]

\* C4: for every timestamp that carries a timezone offset, DateTime.validate
\* fails with the ValueError saying that datetime objects must be naive,
\* not with a type error, and returns no value.
C4_AwareIsValueError ==
    (DateTimeArg /\ ~IsNaive(arg.val)) =>
        /\ outcome.raised = "ValueError"
        /\ outcome.msg = "datetime objects must be naive (no timezone info)"
        /\ ~issubclass(outcome.raised, "TypeError")

\* the canonical storage kind of each validator, and an instance of it that
\* is already in canonical form
CanonicalKind ==
    {<<"PyObjectId.validate", "bson.ObjectId">>,
     <<"Int64.validate", "bson.int64.Int64">>,
     <<"Decimal128.validate", "bson.decimal128.Decimal128">>,
     <<"Binary.validate", "bson.binary.Binary">>,
     <<"Regex.validate", "bson.regex.Regex">>,
     <<"_Pattern.validate", "re.Pattern">>,
     <<"DateTime.validate", "datetime.datetime">>,
     <<"_decimalDecimal.validate", "decimal.Decimal">>}

CanonicalArg ==
    /\ \E k \in CanonicalKind : op = k[1] /\ issubclass(arg.type, k[2])
    /\ op = "DateTime.validate" =>
          IsNaive(arg.val) /\ arg.val.microsecond % 1000 = 0

\* C5: each of the eight validators returns an input that is already an
\* instance of its canonical storage kind unchanged.
C5_CanonicalInputUnchanged ==
    CanonicalArg =>
        /\ outcome.raised = "none"
        /\ outcome.value.type = arg.type
        /\ outcome.value.val = arg.val

ExpectedWrapper ==
    {<<"bson.ObjectId", "PyObjectId">>, <<"bson.int64.Int64", "Int64">>,
     <<"bson.decimal128.Decimal128", "Decimal128">>,
     <<"bson.binary.Binary", "Binary">>, <<"bson.regex.Regex", "Regex">>,
     <<"typing.Pattern", "_Pattern">>, <<"decimal.Decimal", "_decimalDecimal">>,
     <<"datetime.datetime", "DateTime">>}

LookupAnswers ==
    op = "_BSON_SUBSTITUTED_FIELDS.get" =>
        /\ outcome.raised = "none"
        /\ IF \E e \in ExpectedWrapper : e[1] = arg.val
           THEN outcome.value.type = "type"
                /\ <<arg.val, outcome.value.val>> \in ExpectedWrapper
           ELSE outcome.value = None

\* C6 as claimed: the substitution table registers exactly six runtime
\* types; a registered type looks up to its wrapper, an unregistered one to
\* "not found" without raising.
C6_SixRegistered ==
    /\ Cardinality(DOMAIN BSON_SUBSTITUTED_FIELDS) = 6
    /\ LookupAnswers

\* C6 amended: the substitution table registers exactly eight runtime types
\* (the six wire types, the compiled pattern and the datetime); a registered
\* type looks up to its wrapper, an unregistered one to "not found" without
\* raising.
C6_EightRegistered ==
    /\ Cardinality(DOMAIN BSON_SUBSTITUTED_FIELDS) = 8
    /\ DOMAIN BSON_SUBSTITUTED_FIELDS = {e[1] : e \in ExpectedWrapper}
    /\ LookupAnswers

C6_Witness ==
    /\ op = "_BSON_SUBSTITUTED_FIELDS.get"
    /\ arg.val = "datetime.timedelta"
    /\ outcome = Ok(None)

DurationArg == op = "JsonEncoder.default" /\ arg.type = "datetime.timedelta"

\* the clock text HH:MM:SS[.ffffff] read back as seconds and microseconds
ClockReads(s, seconds, micros) ==
    LET num(i, j) == SmallNat(DigitsOf(SubSeq(s, i, j)))
    IN  /\ Len(s) = IF micros = 0 THEN 8 ELSE 15
        /\ s[3] = ":" /\ s[6] = ":"
        /\ AllDigits(SubSeq(s, 1, 2)) /\ AllDigits(SubSeq(s, 4, 5))
        /\ AllDigits(SubSeq(s, 7, 8))
        /\ num(1, 2) < 24 /\ num(4, 5) < 60 /\ num(7, 8) < 60
        /\ num(1, 2) * 3600 + num(4, 5) * 60 + num(7, 8) = seconds
        /\ micros # 0 =>
              s[9] = "." /\ AllDigits(SubSeq(s, 10, 15)) /\ num(10, 15) = micros

TwentyFiveHours ==
    Val("datetime.timedelta", [days |-> 1, seconds |-> 3600, microseconds |-> 0])

\* C7 as claimed: JsonEncoder.default never fails on a duration.
C7_NeverFails == DurationArg => outcome.raised = "none"

\* C7 amended: for every duration d from zero up to, but not including,
\* 3652059 days, JsonEncoder.default(d) returns the time of day of d modulo
\* 24 hours (25 hours renders as 01:00:00); for a negative duration, and for
\* one of 3652059 days or more, it fails with an OverflowError.
C7_WrapsModulo24Hours ==
    DurationArg =>
        IF 0 <= arg.val.days /\ arg.val.days < MaxOrdinal
        THEN /\ outcome.raised = "none"
             /\ outcome.value.type = "str"
             /\ ClockReads(outcome.value.val, arg.val.seconds, arg.val.microseconds)
             /\ arg = TwentyFiveHours =>
                   outcome.value.val = <<"0", "1", ":", "0", "0", ":", "0", "0">>
        ELSE outcome.raised = "OverflowError"

C7_Witness ==
    /\ DurationArg
    /\ arg = TwentyFiveHours
    /\ outcome.value = Str(<<"0", "1", ":", "0", "0", ":", "0", "0">>)

\* C8: after initialization the decimal codec is in the registry behind
\* codec_options: the arbitrary-precision decimal type finds the encode
\* function, the wire decimal128 type finds the decode function.
C8_CodecRegistered ==
    /\ dict_get(codec_options.type_registry.encoders, "decimal.Decimal")
          = Ok(Val("type", "transform_python"))
    /\ dict_get(codec_options.type_registry.decoders, "bson.decimal128.Decimal128")
          = Ok(Val("type", "transform_bson"))

\* what the call recorded in the state yields right after initialization
OutcomeAfterImport ==
    CASE op = "PyObjectId.validate" -> PyObjectId_validate(arg)
      [] op = "Int64.validate" -> Int64_validate(arg)
      [] op = "Decimal128.validate" -> Decimal128_validate(arg)
      [] op = "Binary.validate" -> Binary_validate(arg)
      [] op = "Regex.validate" -> Regex_validate(arg)
      [] op = "_Pattern.validate" -> Pattern_validate(arg)
      [] op = "DateTime.validate" -> DateTime_validate(arg)
      [] op = "_decimalDecimal.validate" -> decimalDecimal_validate(arg)
      [] op = "decimal_codec.transform_python" -> transform_python(arg)
      [] op = "decimal_codec.transform_bson" -> transform_bson(arg)
      [] op = "JsonEncoder.default" -> JsonEncoder_default(arg)
      [] op = "_BSON_SUBSTITUTED_FIELDS.get" -> dict_get(SubstitutedFields, arg.val)
      [] op = "type_registry.encoder" -> dict_get(TypeRegistry(<<>>).encoders, arg.val)
      [] op = "type_registry.decoder" -> dict_get(TypeRegistry(<<>>).decoders, arg.val)
      [] OTHER -> Ok(None)

RECURSIVE DigitsLeq(_, _)
DigitsLeq(a, b) ==
    \/ Len(a) < Len(b)
    \/ /\ Len(a) = Len(b)
       /\ \/ a = <<>>
          \/ Head(a) < Head(b)
          \/ Head(a) = Head(b) /\ DigitsLeq(Tail(a), Tail(b))

\* -2^63 <= n <= 2^63 - 1
InInt64Range(n) ==
    IF n.neg
    THEN DigitsLeq(n.digits,
                   <<9, 2, 2, 3, 3, 7, 2, 0, 3, 6, 8, 5, 4, 7, 7, 5, 8, 0, 8>>)
    ELSE DigitsLeq(n.digits,
                   <<9, 2, 2, 3, 3, 7, 2, 0, 3, 6, 8, 5, 4, 7, 7, 5, 8, 0, 7>>)

\* C10: every value Int64.validate returns lies in [-2^63, 2^63 - 1]; an
\* integer outside that range is rejected, not wrapped.
C10_Int64InRange ==
    (op = "Int64.validate" /\ outcome.raised = "none") =>
        InInt64Range(outcome.value.val)

====
